---- MODULE Spec2Model ----
(***************************************************************************)
(* Session / command synchronisation layer of the browser-control client:  *)
(* the browserStore module (connection channel, session stores, REST       *)
(* operations), the command registry with its dispatch wrappers, the agent *)
(* message component that correlates push updates, and the command input.  *)
(*                                                                         *)
(* Texts (urls, prompts) are sequences of one-character strings, so that   *)
(* the validators and the url normalisation are computed, not assumed.     *)
(* The empty string is the empty sequence.                                 *)
(***************************************************************************)
EXTENDS Integers, Sequences, FiniteSets, TLC

\* ------------------------------------------------------------------ bounds
MaxSockets == 2     \* WebSocket objects ever created
MaxLog == 3         \* entries in the messages store
MaxCalls == 2       \* REST calls in flight at once
MaxInv == 2         \* agent messages ever mounted
MaxUpdates == 2     \* entries in the updates store
MaxTyped == 1       \* characters typed one by one into the command input

\* --------------------------------------------------------------- constants
NoSocket == 0       \* socket = null
NoTimer == 0        \* pingInterval = null
NoInv == 0          \* a REST call awaited by the controls, not by a command
InitialFps == 5

Undefined == "undefined"
EmptyText == << >>

VARIABLES
    \* browserStore: stores
    connected, messages, browserScreenshot, isLoading, browserStatus,
    urlInput, promptInput, fpsValue,
    \* browserStore: module variables and the objects they point to
    socket, pingInterval, readyState, timers,
    \* presentation side effects of addMessage and of the dispatch wrappers
    toasts,
    \* REST calls in flight (suspended async functions)
    calls,
    \* turn store, updates store, mounted agent messages, and whether a throwing
    \* subscriber has left the store's notification queue unflushed
    turn, updates, inv, queueStuck,
    \* whether the browser view (browser.svelte) is mounted
    mounted,
    \* command input component
    inputText, showActions, actionsDialogOpen, selectedAction, dispatched,
    \* the handler that ran last (history, read only by the properties)
    lastOp

storeVars == <<connected, messages, browserScreenshot, isLoading, browserStatus,
               urlInput, promptInput, fpsValue>>
channelVars == <<socket, pingInterval, readyState, timers>>
agentVars == <<turn, updates, inv, queueStuck>>
inputVars == <<inputText, showActions, actionsDialogOpen, selectedAction, dispatched>>
progVars == <<storeVars, channelVars, toasts, calls, agentVars, mounted, inputVars>>
vars == <<progVars, lastOp>>

Sockets == 1..MaxSockets
Slots == 1..MaxCalls
Invs == 1..MaxInv

\* ------------------------------------------------------------ addMessage
\* A log entry is <<text>> or <<template, argument>>.
Room(n) == Len(messages) + n <= MaxLog /\ Len(toasts) + n <= MaxLog

\* toast.error / toast.success of a System message; other origins do not toast
ToastOf(ts, from, message, error) ==
    IF from = "System"
    THEN Append(ts, [kind |-> IF error THEN "error" ELSE "success", text |-> message])
    ELSE ts

\* mutant: the new entry is put in front
LogOfPrepended(ms, message) == <<message>> \o ms

\* messages.update(msgs => [...msgs, message])
LogOf(ms, message) == Append(ms, message)

\* ------------------------------------------------------ connection channel
Live(s) == readyState[s] \in {"CONNECTING", "OPEN"}

\* socket?.readyState === WebSocket.OPEN
SocketIsOpen == socket # NoSocket /\ readyState[socket] = "OPEN"

\* mutant: the early return is missing
ConnectNeverNoOp == FALSE

\* connectWebSocket returns early on an open socket
ConnectIsNoOp == SocketIsOpen

HasFreeSocket == \E s \in Sockets : readyState[s] = "NONE"
FreeSocket == CHOOSE s \in Sockets :
                 /\ readyState[s] = "NONE"
                 /\ \A r \in Sockets : readyState[r] = "NONE" => s <= r

ConnectSocket == IF ConnectIsNoOp THEN socket ELSE FreeSocket
ConnectReady == IF ConnectIsNoOp THEN readyState
                ELSE [readyState EXCEPT ![FreeSocket] = "CONNECTING"]
CanConnect == ConnectIsNoOp \/ HasFreeSocket

ConnectWebSocket ==
    /\ CanConnect
    /\ socket' = ConnectSocket
    /\ readyState' = ConnectReady
    /\ lastOp' = "connectWebSocket"
    /\ UNCHANGED <<storeVars, pingInterval, timers, toasts, calls, agentVars, mounted, inputVars>>

\* WebSocket.close(): a connecting or open socket starts closing
CloseOf(rs, s) ==
    IF s # NoSocket /\ rs[s] \in {"CONNECTING", "OPEN"}
    THEN [rs EXCEPT ![s] = "CLOSING"] ELSE rs

\* clearInterval(pingInterval) when pingInterval is set
ClearPing(ts, p) == IF p # NoTimer THEN ts \ {p} ELSE ts

DisconnectReady == CloseOf(readyState, socket)
DisconnectTimers == ClearPing(timers, pingInterval)

DisconnectWebSocket ==
    /\ readyState' = DisconnectReady
    /\ socket' = NoSocket
    /\ timers' = DisconnectTimers
    /\ pingInterval' = NoTimer
    /\ connected' = FALSE
    /\ lastOp' = "disconnectWebSocket"
    /\ UNCHANGED <<messages, browserScreenshot, isLoading, browserStatus, urlInput,
                   promptInput, fpsValue, toasts, calls, agentVars, mounted, inputVars>>

\* socket.onopen of socket s; its interval timer is named after the socket
OnOpen(s) ==
    /\ readyState[s] = "CONNECTING"
    /\ Room(1)
    /\ readyState' = [readyState EXCEPT ![s] = "OPEN"]
    /\ connected' = TRUE
    /\ messages' = LogOf(messages, <<"Connected to server">>)
    /\ toasts' = ToastOf(toasts, "System", <<"Connected to server">>, FALSE)
    /\ pingInterval' = s
    /\ timers' = timers \cup {s}
    /\ lastOp' = "onopen"
    /\ UNCHANGED <<browserScreenshot, isLoading, browserStatus, urlInput, promptInput,
                   fpsValue, socket, calls, agentVars, mounted, inputVars>>

\* socket.onclose: the flag and the timer it resets are the module's, not the socket's
OnCloseConnected == FALSE
OnCloseTimers == ClearPing(timers, pingInterval)

\* The close event of socket s (remote close, failed connection, or the end of a
\* local close()); a failure fires socket.onerror first, in the same task.
OnClose(s, err) ==
    /\ readyState[s] \in {"CONNECTING", "OPEN", "CLOSING"}
    /\ readyState[s] = "CONNECTING" => err
    /\ err => Room(1)
    /\ readyState' = [readyState EXCEPT ![s] = "CLOSED"]
    /\ messages' = IF err THEN LogOf(messages, <<"Connection error occurred">>)
                   ELSE messages
    /\ toasts' = IF err THEN ToastOf(toasts, "System", <<"Connection error occurred">>, TRUE)
                 ELSE toasts
    /\ connected' = OnCloseConnected
    /\ timers' = OnCloseTimers
    /\ pingInterval' = NoTimer
    /\ lastOp' = "onclose"
    /\ UNCHANGED <<browserScreenshot, isLoading, browserStatus, urlInput, promptInput,
                   fpsValue, socket, calls, agentVars, mounted, inputVars>>

\* The interval callback of timer t: ping on an open socket, otherwise clear
\* whatever timer pingInterval names (pingInterval itself is left as it is).
PingTick(t) ==
    /\ t \in timers
    /\ timers' = IF SocketIsOpen THEN timers ELSE ClearPing(timers, pingInterval)
    /\ lastOp' = "pingTick"
    /\ UNCHANGED <<storeVars, socket, pingInterval, readyState, toasts, calls,
                   agentVars, mounted, inputVars>>

\* Inbound frames. A malformed frame makes JSON.parse throw into the catch.
FrameTypes == {"screenshot", "message", "pong", "unknown", "malformed"}
ImagePrefix == "data:image/png;base64,"
FrameImage == "img"
FrameUrl == <<"h", "t", "t", "p", ":", "/", "/", "a", ".", "c", "o">>
FrameText == <<"agent says">>

\* frames that fall through every branch, or into the catch
DroppedFrames == {"unknown", "malformed"}

\* mutant: the last branch takes every frame that is not a screenshot or a pong
IsMessageFrameLoose(type) == type \notin {"screenshot", "pong"}

\* data.type === 'message'; a malformed frame never gets as far as the test
IsMessageFrame(type) == type = "message"

OnMessage(s, type) ==
    /\ readyState[s] = "OPEN"
    /\ IsMessageFrame(type) => Len(messages) < MaxLog
    /\ browserScreenshot' = IF type = "screenshot" THEN <<ImagePrefix, FrameImage>>
                            ELSE browserScreenshot
    /\ urlInput' = IF type = "screenshot" THEN FrameUrl ELSE urlInput
    /\ isLoading' = IF type = "screenshot" THEN FALSE ELSE isLoading
    /\ messages' = IF IsMessageFrame(type) THEN LogOf(messages, FrameText) ELSE messages
    /\ toasts' = IF IsMessageFrame(type) THEN ToastOf(toasts, "Agent", FrameText, FALSE)
                 ELSE toasts
    /\ lastOp' = IF type \in DroppedFrames THEN "onmessageDropped" ELSE "onmessage"
    /\ UNCHANGED <<connected, browserStatus, promptInput, fpsValue, channelVars,
                   calls, agentVars, mounted, inputVars>>

\* --------------------------------------------------------------- REST calls
\* A suspended fetch: the operation, its argument, and the agent message whose
\* onSend awaits it (NoInv when the caller is a control or a lifecycle hook).
NoCall == [op |-> "none", arg |-> EmptyText, fps |-> 0, inv |-> NoInv]
HasFreeSlot == \E k \in Slots : calls[k].op = "none"
FreeSlot == CHOOSE k \in Slots :
               /\ calls[k].op = "none"
               /\ \A j \in Slots : calls[j].op = "none" => k <= j
AddCall(cs, c) == [cs EXCEPT ![FreeSlot] = c]
DropCall(cs, k) == [cs EXCEPT ![k] = NoCall]

\* What the backend can answer: a JSON body with a message, one that also carries
\* an interaction identifier, an error payload (JSON without message), or a
\* rejected fetch / unparsable body, which throws into the catch.
Responses == {"ok", "ok_id", "error_payload", "reject"}
ResponsesOf(op) == IF op = "runAgent" THEN Responses ELSE Responses \ {"ok_id"}
BackendMessage == <<"backend message">>
\* data.message
MessageOf(resp) == IF resp \in {"ok", "ok_id"} THEN BackendMessage ELSE <<Undefined>>
FetchError == "TypeError: Failed to fetch"

\* ------------------------------------------------------ browser lifecycle
\* startBrowser up to its await
StartStatus == "starting"
StartBrowserCall ==
    /\ browserStatus' = StartStatus
    /\ isLoading' = TRUE
    /\ calls' = AddCall(calls, [NoCall EXCEPT !.op = "start"])

\* the Start Browser button is disabled while running or starting
StartDisabled == browserStatus \in {"running", "starting"}

StartBrowser ==
    /\ mounted
    /\ ~StartDisabled
    /\ HasFreeSlot
    /\ StartBrowserCall
    /\ lastOp' = "startBrowser"
    /\ UNCHANGED <<connected, messages, browserScreenshot, urlInput, promptInput,
                   fpsValue, channelVars, toasts, agentVars, mounted, inputVars>>

\* stopBrowser up to its await
StopStatus == "stopping"
StopBrowserCall ==
    /\ browserStatus' = StopStatus
    /\ calls' = AddCall(calls, [NoCall EXCEPT !.op = "stop"])

\* the Stop Browser button is disabled while idle or stopping
StopDisabled == browserStatus \in {"idle", "stopping"}

StopBrowser ==
    /\ mounted
    /\ ~StopDisabled
    /\ HasFreeSlot
    /\ StopBrowserCall
    /\ lastOp' = "stopBrowser"
    /\ UNCHANGED <<connected, messages, browserScreenshot, isLoading, urlInput,
                   promptInput, fpsValue, channelVars, toasts, agentVars, mounted, inputVars>>

\* browser.svelte onMount: connectWebSocket(), then startBrowser() up to its await
BrowserMount ==
    /\ ~mounted
    /\ mounted' = TRUE
    /\ CanConnect
    /\ HasFreeSlot
    /\ socket' = ConnectSocket
    /\ readyState' = ConnectReady
    /\ StartBrowserCall
    /\ lastOp' = "onMount"
    /\ UNCHANGED <<connected, messages, browserScreenshot, urlInput, promptInput,
                   fpsValue, pingInterval, timers, toasts, agentVars, inputVars>>

\* browser.svelte onDestroy: disconnectWebSocket(), then stopBrowser() up to its await
BrowserDestroy ==
    /\ mounted
    /\ mounted' = FALSE
    /\ HasFreeSlot
    /\ readyState' = DisconnectReady
    /\ socket' = NoSocket
    /\ timers' = DisconnectTimers
    /\ pingInterval' = NoTimer
    /\ connected' = FALSE
    /\ StopBrowserCall
    /\ lastOp' = "onDestroy"
    /\ UNCHANGED <<messages, browserScreenshot, isLoading, urlInput, promptInput,
                   fpsValue, toasts, agentVars, inputVars>>

\* mutant: the two outcomes of startBrowser are swapped
StartedStatusSwapped(resp) == IF resp = "reject" THEN "running" ELSE "idle"

\* startBrowser after its await: any parsed body counts as success
StartedStatus(resp) == IF resp = "reject" THEN "idle" ELSE "running"
StartedEntry(resp) ==
    IF resp = "reject" THEN <<"Failed to start browser - ", FetchError>>
    ELSE MessageOf(resp)

StartResolved(k, resp) ==
    /\ calls[k].op = "start"
    /\ resp \in ResponsesOf("start")
    /\ Room(1)
    /\ messages' = LogOf(messages, StartedEntry(resp))
    /\ toasts' = ToastOf(toasts, "System", StartedEntry(resp), resp = "reject")
    /\ browserStatus' = StartedStatus(resp)
    /\ isLoading' = IF resp = "reject" THEN FALSE ELSE isLoading
    /\ calls' = DropCall(calls, k)
    /\ lastOp' = "startResolved"
    /\ UNCHANGED <<connected, browserScreenshot, urlInput, promptInput, fpsValue,
                   channelVars, agentVars, mounted, inputVars>>

\* stopBrowser after its await
StoppedStatus(resp) == IF resp = "reject" THEN "running" ELSE "idle"
StoppedEntry(resp) ==
    IF resp = "reject" THEN <<"Failed to stop browser - ", FetchError>>
    ELSE MessageOf(resp)

StopResolved(k, resp) ==
    /\ calls[k].op = "stop"
    /\ resp \in ResponsesOf("stop")
    /\ Room(1)
    /\ messages' = LogOf(messages, StoppedEntry(resp))
    /\ toasts' = ToastOf(toasts, "System", StoppedEntry(resp), resp = "reject")
    /\ browserScreenshot' = IF resp = "reject" THEN browserScreenshot ELSE EmptyText
    /\ browserStatus' = StoppedStatus(resp)
    /\ calls' = DropCall(calls, k)
    /\ lastOp' = "stopResolved"
    /\ UNCHANGED <<connected, isLoading, urlInput, promptInput, fpsValue,
                   channelVars, agentVars, mounted, inputVars>>

\* -------------------------------------------------------------------- texts
Lower == {"a", "b", "c", "d", "e", "f", "g", "h", "i", "j", "k", "l", "m",
          "n", "o", "p", "q", "r", "s", "t", "u", "v", "w", "x", "y", "z"}
Upper == {"A", "B", "C", "D", "E", "F", "G", "H", "I", "J", "K", "L", "M",
          "N", "O", "P", "Q", "R", "S", "T", "U", "V", "W", "X", "Y", "Z"}
Digits == {"0", "1", "2", "3", "4", "5", "6", "7", "8", "9"}
AlNum == Lower \cup Upper \cup Digits
WordChars == AlNum \cup {"_"}
Blank == {" "}

StartsWith(u, p) == Len(u) >= Len(p) /\ SubSeq(u, 1, Len(p)) = p
AllIn(u, from, to, S) == \A j \in from..to : u[j] \in S
Min(a, b) == IF a < b THEN a ELSE b

Https == <<"h", "t", "t", "p", "s", ":", "/", "/">>
Http == <<"h", "t", "t", "p", ":", "/", "/">>
HttpWord == <<"h", "t", "t", "p">>
Www == <<"w", "w", "w">>
WwwDot == <<"w", "w", "w", ".">>
SchemeSep == <<":", "/", "/">>

\* isValidUrl: the character classes of urlRegex
UrlHostClass == AlNum \cup {"-", "@", ":", "%", ".", "_", "+", "~", "#", "="}
UrlTldClass == AlNum \cup {"(", ")"}
UrlTailClass == AlNum \cup {"-", "(", ")", "@", ":", "%", "_", "+", ".", "~", "#",
                            "?", "&", "/", "="}
UrlHostMax == 256
UrlTldMax == 6

\* \b after position e: exactly one of the two neighbours is a word character
WordBoundary(u, e) ==
    (u[e] \in WordChars) # (e < Len(u) /\ u[e + 1] \in WordChars)

\* /^(https?:\/\/)?(www\.)?[host]{1,256}\.[tld]{1,6}\b([tail]*)$/ : a is where the
\* optional scheme ends, b where the optional www. ends, d the dot, e the end of tld
IsValidUrl(u) ==
    \E a \in {0} \cup (IF StartsWith(u, Http) THEN {Len(Http)} ELSE {})
                 \cup (IF StartsWith(u, Https) THEN {Len(Https)} ELSE {}) :
      \E b \in {a} \cup (IF StartsWith(SubSeq(u, a + 1, Len(u)), WwwDot)
                         THEN {a + Len(WwwDot)} ELSE {}) :
        \E d \in (b + 2)..Len(u) :
          /\ d - b - 1 <= UrlHostMax
          /\ AllIn(u, b + 1, d - 1, UrlHostClass)
          /\ u[d] = "."
          /\ \E e \in (d + 1)..Min(d + UrlTldMax, Len(u)) :
               /\ AllIn(u, d + 1, e, UrlTldClass)
               /\ WordBoundary(u, e)
               /\ AllIn(u, e + 1, Len(u), UrlTailClass)

\* String.prototype.trim over the blanks of the model's alphabet
Trim(u) ==
    LET solid == {j \in 1..Len(u) : u[j] \notin Blank}
    IN IF solid = {} THEN EmptyText
       ELSE SubSeq(u, CHOOSE j \in solid : \A m \in solid : j <= m,
                      CHOOSE j \in solid : \A m \in solid : j >= m)

\* /^[a-z][a-z0-9+.-]*:\/\//i
HasProtocol(u) ==
    \E n \in 1..(Len(u) - Len(SchemeSep)) :
      /\ u[1] \in Lower \cup Upper
      /\ AllIn(u, 2, n, AlNum \cup {"+", ".", "-"})
      /\ SubSeq(u, n + 1, n + Len(SchemeSep)) = SchemeSep

\* new URL(u).hostname for a text with a scheme, over the model's alphabet (no
\* userinfo, no brackets, no percent escapes, last label not numeric): the
\* authority runs from the slashes to the first of / ? #, a port follows the last
\* colon, and a blank in the host or an empty host makes the constructor throw.
NoHost == <<" ">>
Hostname(u) ==
    LET n == CHOOSE j \in 1..Len(u) : u[j] = ":" /\ \A m \in 1..(j - 1) : u[m] # ":"
        afterColon == SubSeq(u, n + 1, Len(u))
        slashes == {j \in 0..Len(afterColon) : AllIn(afterColon, 1, j, {"/"})}
        skip == CHOOSE j \in slashes : \A m \in slashes : j >= m
        rest == SubSeq(afterColon, skip + 1, Len(afterColon))
        stops == {j \in 1..Len(rest) : rest[j] \in {"/", "?", "#"}}
        stop == IF stops = {} THEN Len(rest) + 1
                ELSE CHOOSE j \in stops : \A m \in stops : j <= m
        authority == SubSeq(rest, 1, stop - 1)
        colons == {j \in 1..Len(authority) : authority[j] = ":"}
        colon == IF colons = {} THEN Len(authority) + 1
                 ELSE CHOOSE j \in colons : \A m \in colons : j >= m
        host == SubSeq(authority, 1, colon - 1)
        portOk == AllIn(authority, colon + 1, Len(authority), Digits)
    IN IF host = EmptyText \/ ~portOk \/ \E j \in 1..Len(host) : host[j] \in Blank
       THEN NoHost ELSE host

HostMinLen == 3
\* urlObject.hostname.includes('.') && urlObject.hostname.length > 3; a throwing
\* constructor falls through the empty catch to the same rejection
HasValidHostname(u) ==
    LET h == Hostname(u)
    IN h # NoHost /\ (\E j \in 1..Len(h) : h[j] = ".") /\ Len(h) > HostMinLen

\* navigateToURL's normalisation: trim, then default the protocol
ProcessedUrl(u) == IF HasProtocol(Trim(u)) THEN Trim(u) ELSE Https \o Trim(u)

\* ACTIONS[goto].enableSend of the command input
StartsHttpOrWww(u) == StartsWith(u, HttpWord) \/ StartsWith(u, Www)
\* enableSend of get_actions and prompt
NonEmpty(u) == Len(u) > 0

\* ----------------------------------------------- agent message (agent.svelte)
\* pc: unmounted, awaiting (onSend in flight), settled (nothing subscribed),
\* subscribed, wedged (subscribed, its unsubscribe binding never initialised),
\* threw (onMount rejected).  status is what onSend resolved to.
NoInvRec == [pc |-> "unmounted", cmd |-> "none", text |-> EmptyText,
             status |-> "none", response |-> EmptyText, id |-> Undefined]
HasFreeInv == \E i \in Invs : inv[i].pc = "unmounted"
FreeInv == CHOOSE i \in Invs :
              /\ inv[i].pc = "unmounted"
              /\ \A j \in Invs : inv[j].pc = "unmounted" => i <= j

\* What onSend resolves to; status "none" stands for a value without a status
\* (undefined), whose destructuring throws.
Result(status, message) == [status |-> status, message |-> message]
NoResult == Result("none", EmptyText)

\* the subscriber's test of the last update
UpdateCompletes(u) == u.status = "completed"

\* onMount after its await, for the agent message r
SettledInv(r, result) ==
    IF result.status = "none" THEN [r EXCEPT !.pc = "threw"]
    ELSE IF result.status = "completed" /\ result.message # EmptyText
    THEN [r EXCEPT !.pc = "settled", !.status = "completed",
                   !.response = result.message]
    ELSE IF result.status = "started"
    THEN \* subscribe runs the callback at once, before unsubscribe is bound
         IF Len(updates) > 0 /\ UpdateCompletes(updates[Len(updates)])
         THEN [r EXCEPT !.pc = "wedged", !.status = "started", !.id = result.message,
                        !.response = updates[Len(updates)].message]
         ELSE [r EXCEPT !.pc = "subscribed", !.status = "started",
                        !.id = result.message]
    ELSE [r EXCEPT !.pc = "settled", !.status = result.status]

SettledTurn(result) ==
    IF result.status = "completed" /\ result.message # EmptyText THEN "idle" ELSE turn

\* -------------------------------------------------- store: navigate, runAgent
NavEntry(resp) ==
    IF resp = "reject" THEN <<"Failed to navigate - ", FetchError>> ELSE MessageOf(resp)
\* mutant: a failed navigation resets the phase, as a failed start does
NavStatusReset(resp) == IF resp = "reject" THEN "idle" ELSE browserStatus
\* navigateToUrl leaves browserStatus alone
NavStatus(resp) == browserStatus

\* navigateToUrl(url) up to its await, or to its return on an empty url
NavigateCall(url, i) ==
    IF url = EmptyText
    THEN /\ Room(1)
         /\ messages' = LogOf(messages, <<"Please enter a URL">>)
         /\ toasts' = ToastOf(toasts, "System", <<"Please enter a URL">>, TRUE)
         /\ UNCHANGED <<isLoading, calls>>
    ELSE /\ HasFreeSlot
         /\ isLoading' = TRUE
         /\ calls' = AddCall(calls, [NoCall EXCEPT !.op = "navigate", !.arg = url,
                                                   !.inv = i])
         /\ UNCHANGED <<messages, toasts>>

\* the url field and the buttons of the controls are disabled unless running
ControlsDisabled == browserStatus # "running"

\* the Go / Navigate buttons
NavigateControl ==
    /\ mounted
    /\ ~ControlsDisabled
    /\ NavigateCall(urlInput, NoInv)
    /\ lastOp' = "navigateToUrl"
    /\ UNCHANGED <<connected, browserScreenshot, browserStatus, urlInput, promptInput,
                   fpsValue, channelVars, agentVars, mounted, inputVars>>

\* browser.svelte navigateToURL after the store call: always reports completion
NavigatedResult(url) == Result("completed", <<"Navigated to ", url>>)

NavigateResolved(k, resp) ==
    /\ calls[k].op = "navigate"
    /\ resp \in ResponsesOf("navigate")
    /\ Room(1)
    /\ messages' = LogOf(messages, NavEntry(resp))
    /\ toasts' = ToastOf(toasts, "System", NavEntry(resp), resp = "reject")
    /\ isLoading' = IF resp = "reject" THEN FALSE ELSE isLoading
    /\ browserStatus' = NavStatus(resp)
    /\ calls' = DropCall(calls, k)
    /\ IF calls[k].inv = NoInv
       THEN UNCHANGED <<inv, turn>>
       ELSE /\ inv' = [inv EXCEPT ![calls[k].inv] =
                          SettledInv(@, NavigatedResult(calls[k].arg))]
            /\ turn' = SettledTurn(NavigatedResult(calls[k].arg))
    /\ lastOp' = "navigateResolved"
    /\ UNCHANGED <<connected, browserScreenshot, urlInput, promptInput, fpsValue,
                   channelVars, updates, queueStuck, mounted, inputVars>>

\* runAgent(prompt) of the store up to its await, or to its return on an empty prompt
RunAgentCall(prompt, i) ==
    /\ Room(1)
    /\ IF prompt = EmptyText
       THEN /\ messages' = LogOf(messages, <<"Please enter a prompt">>)
            /\ toasts' = ToastOf(toasts, "System", <<"Please enter a prompt">>, TRUE)
            /\ UNCHANGED calls
       ELSE /\ HasFreeSlot
            /\ messages' = LogOf(messages, <<"Running agent with prompt: ", prompt>>)
            /\ toasts' = ToastOf(toasts, "System",
                                 <<"Running agent with prompt: ", prompt>>, FALSE)
            /\ calls' = AddCall(calls, [NoCall EXCEPT !.op = "runAgent",
                                                      !.arg = prompt, !.inv = i])

\* the Run Agent button
RunAgentControl ==
    /\ mounted
    /\ ~ControlsDisabled
    /\ RunAgentCall(promptInput, NoInv)
    /\ lastOp' = "runAgent"
    /\ UNCHANGED <<connected, browserScreenshot, isLoading, browserStatus, urlInput,
                   promptInput, fpsValue, channelVars, agentVars, mounted, inputVars>>

AgentEntry(resp) ==
    IF resp = "reject" THEN <<"Failed to run agent - ", FetchError>> ELSE MessageOf(resp)

\* what the store's runAgent resolves to: it has no return statement
StoreRunAgentValue(resp) == Undefined

\* browser.svelte runAgent after the store call (the store catches its own errors,
\* so the wrapper's catch is never entered)
RunAgentResult(id) ==
    IF id # Undefined THEN Result("started", id) ELSE NoResult

\* toast.success(`Agent started with ID: ${id}`) of the wrapper
StartedToast(ts, id) ==
    IF id # Undefined
    THEN Append(ts, [kind |-> "success", text |-> <<"Agent started with ID: ", id>>])
    ELSE ts

RunAgentResolved(k, resp) ==
    /\ calls[k].op = "runAgent"
    /\ resp \in ResponsesOf("runAgent")
    /\ Room(1)
    /\ messages' = LogOf(messages, AgentEntry(resp))
    /\ toasts' = StartedToast(ToastOf(toasts, "System", AgentEntry(resp), resp = "reject"),
                               IF calls[k].inv = NoInv THEN Undefined
                               ELSE StoreRunAgentValue(resp))
    /\ calls' = DropCall(calls, k)
    /\ IF calls[k].inv = NoInv
       THEN UNCHANGED <<inv, turn>>
       ELSE /\ inv' = [inv EXCEPT ![calls[k].inv] =
                          SettledInv(@, RunAgentResult(StoreRunAgentValue(resp)))]
            /\ turn' = SettledTurn(RunAgentResult(StoreRunAgentValue(resp)))
    /\ lastOp' = "runAgentResolved"
    /\ UNCHANGED <<connected, browserScreenshot, isLoading, browserStatus, urlInput,
                   promptInput, fpsValue, channelVars, updates, queueStuck, mounted, inputVars>>

\* ------------------------------------------------------------- frame rate
FpsMin == 1
FpsMax == 30
\* the values the user asks the slider for (drag, keyboard, scripted input event)
FpsRequests == {0, 2, 17, 29, 45}

\* mutant: the slider has no min and max
RangeValueRaw(v) == v

\* value sanitisation of <input type="range" min="1" max="30" step="1">
RangeValue(v) == IF v < FpsMin THEN FpsMin ELSE IF v > FpsMax THEN FpsMax ELSE v

\* the fps slider: bind:value writes the element's value to the fpsValue store
SlideFps(v) ==
    /\ mounted
    /\ ~ControlsDisabled
    /\ RangeValue(v) # fpsValue
    /\ fpsValue' = RangeValue(v)
    /\ lastOp' = "slideFps"
    /\ UNCHANGED <<connected, messages, browserScreenshot, isLoading, browserStatus,
                   urlInput, promptInput, channelVars, toasts, calls, agentVars,
                   mounted, inputVars>>

\* the Apply button: setFps($fpsValue) up to its await
ApplyFps ==
    /\ mounted
    /\ ~ControlsDisabled
    /\ HasFreeSlot
    /\ calls' = AddCall(calls, [NoCall EXCEPT !.op = "setFps", !.fps = fpsValue])
    /\ lastOp' = "setFps"
    /\ UNCHANGED <<storeVars, channelVars, toasts, agentVars, mounted, inputVars>>

FpsEntry(resp, fps) ==
    IF resp = "reject" THEN <<"Failed to set FPS - ", FetchError>>
    ELSE <<"FPS set to ", fps>>

\* setFps after its await
SetFpsResolved(k, resp) ==
    /\ calls[k].op = "setFps"
    /\ resp \in ResponsesOf("setFps")
    /\ Room(1)
    /\ messages' = LogOf(messages, FpsEntry(resp, calls[k].fps))
    /\ toasts' = ToastOf(toasts, "System", FpsEntry(resp, calls[k].fps), resp = "reject")
    /\ calls' = DropCall(calls, k)
    /\ lastOp' = "setFpsResolved"
    /\ UNCHANGED <<connected, browserScreenshot, isLoading, browserStatus, urlInput,
                   promptInput, fpsValue, channelVars, agentVars, mounted, inputVars>>

\* --------------------------------------------------- dispatch of a command
CommandIds == {"goto", "get_actions", "prompt"}

\* Commands[id].enableSend
EnableSend(cmd, text) ==
    IF cmd = "goto" THEN IsValidUrl(text) ELSE NonEmpty(text)

Mounted(i, cmd, text) == [NoInvRec EXCEPT !.pc = "awaiting", !.cmd = cmd, !.text = text]

InvalidUrlToast(url) == [kind |-> "error", text |-> <<url, " is not a valid URL">>]

\* goto: navigateToURL up to its await, or to its return on a rejected url
DispatchGoto(i, text) ==
    IF HasValidHostname(ProcessedUrl(text))
    THEN /\ NavigateCall(ProcessedUrl(text), i)
         /\ inv' = [inv EXCEPT ![i] = Mounted(i, "goto", text)]
    ELSE /\ Len(toasts) < MaxLog
         /\ toasts' = Append(toasts, InvalidUrlToast(ProcessedUrl(text)))
         /\ inv' = [inv EXCEPT ![i] =
                       SettledInv(Mounted(i, "goto", text), Result("failed", EmptyText))]
         /\ UNCHANGED <<messages, isLoading, calls>>

\* get_actions: resolves at once to {status: true, ...}
DispatchGetActions(i, text) ==
    /\ inv' = [inv EXCEPT ![i] =
                  SettledInv(Mounted(i, "get_actions", text), Result("true", EmptyText))]
    /\ UNCHANGED <<messages, toasts, isLoading, calls>>

\* prompt: the wrapper runAgent up to the store's await
DispatchPrompt(i, text) ==
    /\ RunAgentCall(text, i)
    /\ inv' = [inv EXCEPT ![i] =
                  IF text = EmptyText
                  THEN SettledInv(Mounted(i, "prompt", text),
                                  RunAgentResult(Undefined))
                  ELSE Mounted(i, "prompt", text)]
    /\ UNCHANGED isLoading

\* agent.svelte onMount up to its await: message.command.onSend(message.content).
\* None of the three settles as completed before a REST call resolves.
Dispatch(i, cmd, text) ==
    /\ cmd \in CommandIds
    /\ IF cmd = "goto" THEN DispatchGoto(i, text)
       ELSE IF cmd = "get_actions" THEN DispatchGetActions(i, text)
       ELSE DispatchPrompt(i, text)
    /\ UNCHANGED <<turn, updates, queueStuck>>

\* An agent message whose command's onSend resolves {status: 'started', message: id}
\* (interface Command), mounted by the page.
InteractionIds == {"x1", "x2"}
MountStarted(id) ==
    /\ HasFreeInv
    /\ inv' = [inv EXCEPT ![FreeInv] =
                  SettledInv([NoInvRec EXCEPT !.cmd = "tracked"], Result("started", id))]
    /\ lastOp' = "mountStarted"
    /\ UNCHANGED <<storeVars, channelVars, toasts, calls, turn, updates, queueStuck,
                   mounted, inputVars>>

\* ------------------------------------------------------------ updates store
\* An update is [status, interaction_id, message]; message is data.message.
UpdateStatuses == {"step", "failed", "completed"}
DoneText == <<"Done">>
Update(status, id) ==
    [status |-> status, interaction_id |-> id, message |-> DoneText \o <<id>>]

WedgedSubs == {i \in Invs : inv[i].pc = "wedged"}
FirstWedged == IF WedgedSubs = {} THEN MaxInv + 1
               ELSE CHOOSE i \in WedgedSubs : \A j \in WedgedSubs : i <= j
\* the subscribers whose callback runs to its end on a completing update
Completing(u) ==
    IF queueStuck \/ ~UpdateCompletes(u) THEN {}
    ELSE {i \in Invs : inv[i].pc = "subscribed" /\ i < FirstWedged}
\* the subscriber whose callback sets response and then throws
Throwing(u) ==
    IF queueStuck \/ ~UpdateCompletes(u) THEN {} ELSE WedgedSubs \cap {FirstWedged}

\* A push update reaches the updates store and the store notifies its subscribers
\* in subscription order, each with the list as it was appended.
PushUpdate(status, id) ==
    LET u == Update(status, id) IN
    /\ Len(updates) < MaxUpdates
    /\ \E s \in Sockets : readyState[s] = "OPEN"
    /\ inv' = [i \in Invs |->
                 IF i \in Completing(u)
                 THEN [inv[i] EXCEPT !.pc = "settled", !.response = u.message]
                 ELSE IF i \in Throwing(u)
                 THEN [inv[i] EXCEPT !.response = u.message]
                 ELSE inv[i]]
    /\ updates' = IF Completing(u) # {} THEN << >> ELSE Append(updates, u)
    /\ turn' = IF Completing(u) # {} THEN "idle" ELSE turn
    /\ queueStuck' = (queueStuck \/ Throwing(u) # {})
    /\ lastOp' = "pushUpdate"
    /\ UNCHANGED <<storeVars, channelVars, toasts, calls, mounted, inputVars>>

\* ------------------------------------------------------------ command input
Texts == { EmptyText,
           <<"a", ".", "c", "o">>,
           <<"f", "t", "p", ":", "/", "/", "a", ".", "c", "o">>,
           <<"h", "i">> }
At == <<"@">>

\* The user replaces the content of the textarea (paste: InputEvent.data is null);
\* bind:value stores it, then handleInput runs.
Paste(t) ==
    /\ t \in Texts \cup {At}
    /\ inputText' = t
    /\ showActions' = IF t = At THEN FALSE ELSE showActions
    /\ actionsDialogOpen' = IF t = At THEN FALSE ELSE actionsDialogOpen
    /\ lastOp' = "paste"
    /\ UNCHANGED <<storeVars, channelVars, toasts, calls, agentVars, mounted,
                   selectedAction, dispatched>>

\* The user types the trigger character at the end of the text
TypeAt ==
    /\ Len(inputText) < MaxTyped
    /\ inputText' = inputText \o At
    /\ showActions' = TRUE
    /\ actionsDialogOpen' = TRUE
    /\ lastOp' = "typeAt"
    /\ UNCHANGED <<storeVars, channelVars, toasts, calls, agentVars, mounted,
                   selectedAction, dispatched>>

\* selectAction, from the palette
SelectAction(a) ==
    /\ showActions
    /\ a \in CommandIds
    /\ selectedAction' = a
    /\ inputText' = EmptyText
    /\ showActions' = FALSE
    /\ actionsDialogOpen' = FALSE
    /\ lastOp' = "selectAction"
    /\ UNCHANGED <<storeVars, channelVars, toasts, calls, agentVars, mounted,
                   dispatched>>

\* ACTIONS[id].enableSend of the command input
InputEnableSend(cmd, text) ==
    IF cmd = "goto" THEN StartsHttpOrWww(text) ELSE NonEmpty(text)

\* The user deletes the last character (InputEvent.data is null); bind:value stores
\* the new text before handleInput compares it with the trigger character.
Backspace ==
    /\ inputText # EmptyText
    /\ inputText' = SubSeq(inputText, 1, Len(inputText) - 1)
    /\ showActions' = IF inputText' = At THEN FALSE ELSE showActions
    /\ actionsDialogOpen' = IF inputText' = At THEN FALSE ELSE actionsDialogOpen
    /\ lastOp' = "backspace"
    /\ UNCHANGED <<storeVars, channelVars, toasts, calls, agentVars, mounted,
                   selectedAction, dispatched>>

\* submitAction's guard
SubmitRejected == inputText = EmptyText \/ selectedAction = "none"

\* submitAction: the action event mounts an agent message for the command, whose
\* onMount dispatches it in the same task
SubmitAction ==
    IF SubmitRejected
    THEN UNCHANGED progVars
    ELSE /\ HasFreeInv
         /\ dispatched' = Append(dispatched, [action |-> selectedAction,
                                              value |-> inputText])
         /\ inputText' = EmptyText
         /\ selectedAction' = "none"
         /\ Dispatch(FreeInv, selectedAction, inputText)
         /\ UNCHANGED <<connected, browserScreenshot, browserStatus, urlInput,
                        promptInput, fpsValue, channelVars, mounted, showActions,
                        actionsDialogOpen>>

\* handleKeydown, Enter without Shift
KeyEnter ==
    /\ IF inputText # EmptyText THEN SubmitAction ELSE UNCHANGED progVars
    /\ lastOp' = "keyEnter"

\* the Send button, disabled without a text or without an armed command
SendDisabled == inputText = EmptyText \/ selectedAction = "none"
SendClick ==
    /\ ~SendDisabled
    /\ SubmitAction
    /\ lastOp' = "sendClick"

\* mutant: Escape also removes the trigger character
EscapeTextCleared(t) == EmptyText

\* handleKeydown leaves inputText alone on Escape
EscapeText(t) == t

\* handleKeydown, Escape: closes the palette when it is shown
KeyEscape ==
    /\ showActions' = IF showActions THEN FALSE ELSE showActions
    /\ actionsDialogOpen' = IF showActions THEN FALSE ELSE actionsDialogOpen
    /\ inputText' = EscapeText(inputText)
    /\ lastOp' = "keyEscape"
    /\ UNCHANGED <<storeVars, channelVars, toasts, calls, agentVars, mounted,
                   selectedAction, dispatched>>

\* The user edits the url field / the prompt field of the controls (bind:value)
InitialUrl == <<"h", "t", "t", "p", "s", ":", "/", "/", "w", "w", "w", ".",
                "e", "x", "a", "m", "p", "l", "e", ".", "c", "o", "m">>
InitialPrompt == <<"T", "e", "l", "l", " ", "m", "e", " ", "w", "h", "a", "t", "'",
                   "s", " ", "o", "n", " ", "t", "h", "i", "s", " ", "p", "a", "g", "e">>
EditUrl(t) ==
    /\ ~ControlsDisabled
    /\ t \in {EmptyText, InitialUrl}
    /\ t # urlInput
    /\ urlInput' = t
    /\ lastOp' = "editUrl"
    /\ UNCHANGED <<connected, messages, browserScreenshot, isLoading, browserStatus,
                   promptInput, fpsValue, channelVars, toasts, calls, agentVars,
                   mounted, inputVars>>

EditPrompt(t) ==
    /\ mounted
    /\ ~ControlsDisabled
    /\ t \in {EmptyText, InitialPrompt}
    /\ t # promptInput
    /\ promptInput' = t
    /\ lastOp' = "editPrompt"
    /\ UNCHANGED <<connected, messages, browserScreenshot, isLoading, browserStatus,
                   urlInput, fpsValue, channelVars, toasts, calls, agentVars,
                   mounted, inputVars>>

\* ---------------------------------------------------------- specifications
Init ==
    /\ connected = FALSE
    /\ messages = << >>
    /\ browserScreenshot = EmptyText
    /\ isLoading = FALSE
    /\ browserStatus = "idle"
    /\ urlInput = InitialUrl
    /\ promptInput = InitialPrompt
    /\ fpsValue = InitialFps
    /\ socket = NoSocket
    /\ pingInterval = NoTimer
    /\ readyState = [s \in Sockets |-> "NONE"]
    /\ timers = {}
    /\ toasts = << >>
    /\ calls = [k \in Slots |-> NoCall]
    /\ turn = "idle"
    /\ updates = << >>
    /\ inv = [i \in Invs |-> NoInvRec]
    /\ queueStuck = FALSE
    /\ mounted = FALSE
    /\ inputText = EmptyText
    /\ showActions = FALSE
    /\ actionsDialogOpen = FALSE
    /\ selectedAction = "none"
    /\ dispatched = << >>
    /\ lastOp = "init"

\* the connection channel
NextChannel ==
    \/ ConnectWebSocket
    \/ DisconnectWebSocket
    \/ \E s \in Sockets : OnOpen(s)
    \/ \E s \in Sockets, err \in BOOLEAN : OnClose(s, err)
    \/ \E t \in Sockets : PingTick(t)
    \/ \E s \in Sockets, type \in FrameTypes : OnMessage(s, type)

\* the browser lifecycle and the controls of the browser view
NextBrowser ==
    \/ StartBrowser
    \/ StopBrowser
    \/ BrowserMount
    \/ BrowserDestroy
    \/ \E k \in Slots, resp \in Responses : StartResolved(k, resp)
    \/ \E k \in Slots, resp \in Responses : StopResolved(k, resp)
    \/ NavigateControl
    \/ \E k \in Slots, resp \in Responses : NavigateResolved(k, resp)
    \/ \E t \in {EmptyText, InitialUrl} : EditUrl(t)
    \/ \E s \in Sockets : OnOpen(s)
    \/ \E s \in Sockets, type \in FrameTypes : OnMessage(s, type)

\* the command input and the dispatch of the registry's commands
NextInput ==
    \/ \E t \in Texts \cup {At} : Paste(t)
    \/ TypeAt
    \/ \E a \in CommandIds : SelectAction(a)
    \/ KeyEnter
    \/ KeyEscape
    \/ SendClick
    \/ \E k \in Slots, resp \in Responses : NavigateResolved(k, resp)
    \/ \E k \in Slots, resp \in Responses : RunAgentResolved(k, resp)

\* the correlation of push updates with agent messages, over the channel
NextAgent ==
    \/ \E id \in InteractionIds : MountStarted(id)
    \/ \E status \in UpdateStatuses, id \in InteractionIds : PushUpdate(status, id)
    \/ ConnectWebSocket
    \/ DisconnectWebSocket
    \/ \E s \in Sockets : OnOpen(s)
    \/ \E s \in Sockets, err \in BOOLEAN : OnClose(s, err)

\* the prompt control of the browser view
NextControls ==
    \/ RunAgentControl
    \/ \E t \in {EmptyText, InitialPrompt} : EditPrompt(t)
    \/ \E k \in Slots, resp \in Responses : RunAgentResolved(k, resp)

\* the frame-rate control of the browser view
NextFps ==
    \/ BrowserMount
    \/ \E k \in Slots, resp \in Responses : StartResolved(k, resp)
    \/ \E v \in FpsRequests : SlideFps(v)
    \/ ApplyFps
    \/ \E k \in Slots, resp \in Responses : SetFpsResolved(k, resp)

\* the text field and the palette of the command input
NextPalette ==
    \/ \E t \in Texts \cup {At} : Paste(t)
    \/ TypeAt
    \/ Backspace
    \/ \E a \in CommandIds : SelectAction(a)
    \/ KeyEscape

\* the browser lifecycle next to an agent message that awaits its updates
NextCancel ==
    \/ BrowserMount
    \/ \E s \in Sockets : OnOpen(s)
    \/ \E k \in Slots, resp \in Responses : StartResolved(k, resp)
    \/ StopBrowser
    \/ \E k \in Slots, resp \in Responses : StopResolved(k, resp)
    \/ \E id \in InteractionIds : MountStarted(id)
    \/ \E status \in UpdateStatuses, id \in InteractionIds : PushUpdate(status, id)

Next == NextChannel \/ NextBrowser \/ NextInput \/ NextAgent \/ NextControls \/ NextFps
           \/ NextCancel \/ NextPalette

Spec == Init /\ [][Next]_vars
SpecChannel == Init /\ [][NextChannel]_vars
SpecBrowser == Init /\ [][NextBrowser]_vars
SpecInput == Init /\ [][NextInput]_vars
SpecAgent == Init /\ [][NextAgent]_vars
SpecFps == Init /\ [][NextFps]_vars
SpecCancel == Init /\ [][NextCancel]_vars
SpecPalette == Init /\ [][NextPalette]_vars

\* ================================================================== claims
\* An Invocation is Started while its agent message is subscribed to the updates
\* store and shows no response yet; it is Completed once it shows a response.
Started(i) == inv[i].pc = "subscribed"
StartedSet == {i \in Invs : Started(i)}

\* C1: at most one Invocation is Started at a time; a submission made while one
\* is Started never becomes Started alongside it.
C1_AtMostOneStarted == Cardinality(StartedSet) <= 1

\* C2: a Completed or Failed push update whose interaction id differs from the id
\* of the one outstanding Started Invocation leaves every Invocation (state and
\* displayed response) as it was.
C2_StaleUpdateIgnored ==
    [][\A status \in {"completed", "failed"}, id \in InteractionIds :
         (/\ PushUpdate(status, id)
          /\ Cardinality(StartedSet) = 1
          /\ \A i \in StartedSet : inv[i].id # id)
         => inv' = inv]_vars

\* C3: a disconnect (disconnectWebSocket, or a socket's close event) while an
\* Invocation is Started leaves no Invocation Started.
C3_DisconnectFailsStarted ==
    [][((DisconnectWebSocket \/ \E s \in Sockets, err \in BOOLEAN : OnClose(s, err))
        /\ StartedSet # {})
       => \A i \in Invs : inv'[i].pc # "subscribed"]_vars

\* C4: submitting a text that the armed command's enableSend rejects issues no
\* REST call and leaves the session state (connectivity, phase, frame, loading
\* flag, log) unchanged.
C4_InvalidSubmitIsInert ==
    [][(KeyEnter /\ selectedAction # "none" /\ ~EnableSend(selectedAction, inputText))
       => /\ calls' = calls
          /\ UNCHANGED <<connected, browserStatus, browserScreenshot, isLoading,
                         messages>>]_vars

\* C5: when /agent/run answers the prompt command with an interaction identifier,
\* the Invocation becomes Started.
C5_IdentifierStartsInvocation ==
    [][\A k \in Slots :
         (RunAgentResolved(k, "ok_id") /\ calls[k].inv # NoInv)
         => inv'[calls[k].inv].pc = "subscribed"]_vars

\* C6: every change of browserStatus is one of idle->starting, starting->running,
\* running->stopping, stopping->idle, starting->idle, stopping->running.
PhaseCycle == { <<"idle", "starting">>, <<"starting", "running">>,
                <<"running", "stopping">>, <<"stopping", "idle">>,
                <<"starting", "idle">>, <<"stopping", "running">> }
C6_PhaseCycleOnly ==
    [][browserStatus' # browserStatus
       => <<browserStatus, browserStatus'>> \in PhaseCycle]_vars

\* C7: from idle, startBrowser sets the phase to starting before its REST call is
\* answered and logs nothing yet; when the backend answers with success the phase
\* becomes running and the operation has appended exactly one System entry.
C7_StartScenario ==
    [][/\ ((StartBrowser \/ BrowserMount) /\ browserStatus = "idle")
          => /\ browserStatus' = "starting"
             /\ \E k \in Slots : calls[k].op = "none" /\ calls'[k].op = "start"
             /\ messages' = messages /\ toasts' = toasts
       /\ \A k \in Slots :
            StartResolved(k, "ok")
            => /\ browserStatus' = "running"
               /\ messages' = Append(messages, BackendMessage)
               /\ toasts' = Append(toasts, [kind |-> "success", text |-> BackendMessage])
      ]_vars
C7_Witness ==
    /\ lastOp = "startResolved"
    /\ browserStatus = "running"
    /\ messages = <<BackendMessage>>
    /\ \A k \in Slots : calls[k].op = "none"

\* C8: navigateToUrl never changes browserStatus, whatever the url and however
\* the REST call ends, and on success it appends one message to the log.
C8_NavigateKeepsPhase ==
    [][/\ (NavigateControl \/ \E k \in Slots, resp \in Responses : NavigateResolved(k, resp))
          => browserStatus' = browserStatus
       /\ \A k \in Slots :
            NavigateResolved(k, "ok") => messages' = Append(messages, BackendMessage)
      ]_vars
C8_Witness ==
    /\ lastOp = "navigateResolved"
    /\ browserStatus = "running"
    /\ Len(messages) > 1
    /\ messages[Len(messages)] = BackendMessage

\* C9: connectWebSocket on an open channel creates no socket and changes nothing;
\* disconnectWebSocket on a closed channel (connectivity Disconnected, no current
\* socket or a closed one) changes neither the connectivity, nor a timer, nor a
\* socket, nor anything else of the session: it only drops the reference.
ChannelClosed ==
    /\ ~connected
    /\ socket = NoSocket \/ readyState[socket] = "CLOSED"
C9_ConnectDisconnectIdempotent ==
    [][/\ (ConnectWebSocket /\ SocketIsOpen) => UNCHANGED progVars
       /\ (DisconnectWebSocket /\ ChannelClosed)
          => UNCHANGED <<storeVars, pingInterval, readyState, timers, toasts, calls,
                         agentVars, mounted, inputVars>>
      ]_vars
C9_Witness ==
    /\ lastOp = "connectWebSocket"
    /\ SocketIsOpen
    /\ HasFreeSocket

\* C10: at most one channel is live (connecting or open) at a time.
C10_OneLiveChannel == Cardinality({s \in Sockets : Live(s)}) <= 1

\* C11: no dispatch lets an exception escape into the agent message that awaits
\* it: whatever the command and the backend's answer, onMount never rejects.
C11_DispatchErrorsCaught == \A i \in Invs : inv[i].pc # "threw"

\* C12: whenever the dispatch of a command reaches its outcome, the step appends
\* one entry to the log, and the entry of a failure outcome is shown as an error.
C12_EveryOutcomeLogged ==
    [][\A i \in Invs :
         (/\ inv[i].pc \in {"unmounted", "awaiting"}
          /\ inv'[i].pc \in {"settled", "subscribed", "wedged"})
         => /\ Len(messages') = Len(messages) + 1
            /\ inv'[i].status = "failed"
               => /\ Len(toasts') > Len(toasts)
                  /\ toasts'[Len(toasts')].kind = "error"]_vars

\* C13: the fpsValue store stays within [1,30], and no call to /streaming/set-fps
\* in flight carries an fps outside [1,30], whatever value the slider is asked for.
C13_FpsWithinRange ==
    /\ fpsValue \in FpsMin..FpsMax
    /\ \A k \in Slots : calls[k].op = "setFps" => calls[k].fps \in FpsMin..FpsMax
\* a request above the maximum (45) was clamped and the clamped value dispatched
C13_Witness ==
    /\ lastOp = "setFps"
    /\ \E k \in Slots : calls[k].op = "setFps" /\ calls[k].fps = FpsMax

\* C14: with no command armed, the palette closed and an empty buffer, typing the
\* trigger character opens the palette; Escape with the palette open and no
\* command armed closes it, arms no command and leaves the buffer as it was.
Free == ~showActions /\ ~actionsDialogOpen /\ selectedAction = "none"
PaletteOpen == showActions /\ selectedAction = "none"
C15_EnterDispatchesOnce ==
    [][(/\ KeyEnter
        /\ inputText # EmptyText
        /\ IF selectedAction = "none"
           THEN \A cmd \in CommandIds : EnableSend(cmd, inputText)
           ELSE EnableSend(selectedAction, inputText))
       => /\ Len(dispatched') = Len(dispatched) + 1
          /\ dispatched'[Len(dispatched')].value = inputText
          /\ inputText' = EmptyText
          /\ selectedAction' = "none"]_vars

\* C16: the log is append-only: in every step the log before the step is a prefix
\* of the log after it.
C16_LogAppendOnly ==
    [][/\ Len(messages') >= Len(messages)
       /\ SubSeq(messages', 1, Len(messages)) = messages]_vars
\* a log that channel events and REST operations have both appended to
C16_Witness ==
    /\ Len(messages) > 2
    /\ messages[1] = <<"Connected to server">>
    /\ \E j \in 2..Len(messages) : messages[j] = BackendMessage

\* C17: a frame that does not parse, or whose type is none of screenshot, message
\* and pong, leaves the socket open and every store, timer and socket as it was.
C17_BadFrameIsInert ==
    [][\A s \in Sockets, type \in DroppedFrames :
         OnMessage(s, type) => (UNCHANGED progVars /\ readyState'[s] = "OPEN")]_vars
C17_Witness ==
    /\ lastOp = "onmessageDropped"
    /\ SocketIsOpen
    /\ connected
    /\ messages = << <<"Connected to server">> >>

\* C18: a failed push update carrying the id of a Started Invocation ends it: the
\* Invocation is no longer Started after the update.
C18_FailedUpdateFails ==
    [][\A id \in InteractionIds :
         PushUpdate("failed", id)
         => \A i \in Invs : (Started(i) /\ inv[i].id = id) => inv'[i].pc # "subscribed"
      ]_vars

\* C19: when /browser/start answers with an error payload, browserStatus returns to
\* idle, isLoading is cleared and the entry is shown as an error.
C19_StartErrorPayloadIsFailure ==
    [][\A k \in Slots :
         StartResolved(k, "error_payload")
         => /\ browserStatus' = "idle"
            /\ isLoading' = FALSE
            /\ toasts'[Len(toasts')].kind = "error"]_vars

\* C20: at most one keepalive timer is armed, and a timer is armed only while some
\* socket is open.
C20_KeepaliveOnlyWhileOpen ==
    /\ Cardinality(timers) <= 1
    /\ timers # {} => \E s \in Sockets : readyState[s] = "OPEN"

\* C21: starting the stop flow (the Stop Browser button) while an Invocation is
\* Started abandons it: no Invocation is Started after the step.
C21_StopAbandonsStarted ==
    [][(StopBrowser /\ StartedSet # {})
       => \A i \in Invs : inv'[i].pc # "subscribed"]_vars

\* C22: whenever browserStatus is idle, the current frame is empty.
C22_IdleHasNoFrame == browserStatus = "idle" => browserScreenshot = EmptyText

\* C23: a submit attempt (Enter or the Send button) with a text that the armed
\* command's enableSend rejects dispatches no action event and leaves the input
\* (buffer, armed command, palette) as it was.
C23_RejectedSubmitIsNoOp ==
    [][((KeyEnter \/ SendClick)
        /\ selectedAction # "none"
        /\ ~InputEnableSend(selectedAction, inputText))
       => UNCHANGED inputVars]_vars

\* C24: deleting the trigger character while it is the whole buffer and the
\* palette is open with no command armed closes the palette.
C24_DeleteTriggerClosesPalette ==
    [][(Backspace /\ inputText = At /\ PaletteOpen) => Free']_vars

\* C25: the close event of a socket that disconnectWebSocket closed earlier leaves
\* the flag and the keepalive timer of the current, open socket alone.
C25_LateCloseKeepsConnected ==
    [][\A s \in Sockets, err \in BOOLEAN :
         (/\ OnClose(s, err)
          /\ readyState[s] = "CLOSING"
          /\ s # socket
          /\ SocketIsOpen /\ connected /\ socket \in timers)
         => (connected' /\ socket \in timers')]_vars

\* C26: an agent message that shows a response is not changed by any later push
\* update, whatever its status and id.
Completed(i) == inv[i].pc \in {"settled", "wedged"} /\ inv[i].response # EmptyText
C26_CompletedIsAbsorbing ==
    [][\A status \in UpdateStatuses, id \in InteractionIds :
         PushUpdate(status, id)
         => \A i \in Invs : Completed(i) => inv'[i] = inv[i]]_vars

====
